---- MODULE Spec2Model ----
(***************************************************************************)
(* A model of transmark's BBCode front end: the fragment tokenizer         *)
(* (src/ast/bbcode/tokenizer.rs), the recursive-descent parser and the     *)
(* translation of the intermediate node tree (src/ast/bbcode/parser.rs),   *)
(* with the Markdown escape (src/markdown_text.rs) and the offset to        *)
(* line and column conversion (src/tmast/unist.rs).                         *)
(*                                                                         *)
(* Text is a sequence of one-character strings.  Offsets are the source's  *)
(* zero-based byte offsets; a range is the half-open [start, end).         *)
(***************************************************************************)
EXTENDS Integers, Sequences, FiniteSets, TLC

\* ------------------------------------------------------------------------
\* Bounds
\* ------------------------------------------------------------------------

\* Longest tokenizer input, counted in pieces of Pieces.
MaxPieces == 4

\* Longest document given to the parser, counted in pieces of DocPieces.
MaxDocPieces == 4

\* Longest parameter list of a single start tag, in pieces of ParamPieces.
MaxParamPieces == 3

\* How many more times next() is called after it has returned None.
MaxExtraCalls == 2

\* ------------------------------------------------------------------------
\* Values
\* ------------------------------------------------------------------------

None == [kind |-> "None"]

Range(start, end) == [start |-> start, end |-> end]

\* &input[range]
Slice(s, range) == SubSeq(s, range.start + 1, range.end)

\* The character at a byte offset, "" past the end of the text.
CharAt(s, i) == IF i >= 0 /\ i < Len(s) THEN s[i + 1] ELSE ""

RECURSIVE Flatten(_)
Flatten(ss) == IF ss = <<>> THEN <<>> ELSE Head(ss) \o Flatten(Tail(ss))

\* ------------------------------------------------------------------------
\* tag_regex (tokenizer.rs:22-38), flags (?ix)
\* ------------------------------------------------------------------------

Letters ==
    { "a", "b", "c", "d", "e", "f", "g", "h", "i", "j", "k", "l", "m", "n",
      "o", "p", "q", "r", "s", "t", "u", "v", "w", "x", "y", "z", "B", "I" }
Digits  == {"1"}
Spaces  == {" ", "\n"}

\* Character classes of the pattern.
\*   word  : \w                 nsb   : [\S&&[^\]]]
\*   space : \s                 alpha : [a-z] under (?i)
\*   nquot : [^"]
InClass(cls, c) ==
    CASE cls = "word"  -> c \in Letters \cup Digits
      [] cls = "nsb"   -> c # "" /\ c \notin Spaces /\ c # "]"
      [] cls = "space" -> c \in Spaces
      [] cls = "alpha" -> c \in Letters
      [] cls = "nquot" -> c # "" /\ c # "\""
      [] OTHER         -> FALSE

\* Greedy repetition of one class from offset i: the offset after the run.
RECURSIVE Skip(_, _, _)
Skip(s, i, cls) ==
    IF i < Len(s) /\ InClass(cls, s[i + 1]) THEN Skip(s, i + 1, cls) ELSE i

\* "[^"]+" with the key ending at offset k: the offset after the closing
\* quote when the value ends at offset w, or -1.
QuotedValueAt(s, k, w) ==
    IF /\ CharAt(s, k) = "="
       /\ CharAt(s, k + 1) = "\""
       /\ w > k + 2
       /\ CharAt(s, w) = "\""
    THEN w + 1
    ELSE -1

\* [a-z]+ = "[^"]+" with the key running from offset q to offset k.
KeyAt(s, q, k) ==
    IF k > q THEN QuotedValueAt(s, k, Skip(s, k + 2, "nquot")) ELSE -1

\* \s+ and what follows it, the whitespace running from offset p to offset q.
SpaceAt(s, p, q) ==
    IF q > p THEN KeyAt(s, q, Skip(s, q, "alpha")) ELSE -1

\* One repetition of ( \s+ [a-z]+ = "[^"]+" ) at offset p: the offset after
\* it, or -1.
KeyedParamAt(s, p) == SpaceAt(s, p, Skip(s, p, "space"))

\* ( ... )* : greedy; every repetition starts with whitespace, so giving one
\* back never lets the closing bracket match.
RECURSIVE KeyedParams(_, _)
RECURSIVE KeyedParamsNext(_, _, _)
KeyedParamsNext(s, p, n) == IF n = -1 THEN p ELSE KeyedParams(s, n)

KeyedParams(s, p) == KeyedParamsNext(s, p, KeyedParamAt(s, p))

\* The captures of a match [/name] from offset i whose name ends at offset e.
EndTagMatch(s, i, e) ==
    IF e > i + 2 /\ CharAt(s, e) = "]"
    THEN [kind   |-> "Captures",
          whole  |-> Range(i, e + 1),
          param  |-> None,
          tag    |-> None,
          endTag |-> Range(i + 2, e)]
    ELSE None

\* The captures of a match [name params] from offset i whose name ends at
\* offset n and whose parameters end at offset e.
StartTagMatch(s, i, n, e) ==
    IF n > i + 1 /\ CharAt(s, e) = "]"
    THEN [kind   |-> "Captures",
          whole  |-> Range(i, e + 1),
          param  |-> Range(i + 1, e),
          tag    |-> Range(i + 1, n),
          endTag |-> None]
    ELSE None

\* (=[\S&&[^\]]]+)? after the name that ends at offset n, the run after the
\* equals sign ending at offset v: the offset after the group.
SingleParamEnd(n, v) == IF v > n + 1 THEN v ELSE n

SingleParam(s, n) ==
    IF CharAt(s, n) = "=" THEN SingleParamEnd(n, Skip(s, n + 1, "nsb")) ELSE n

StartTagAt(s, i, n) == StartTagMatch(s, i, n, KeyedParams(s, SingleParam(s, n)))

\* The match of tag_regex anchored at offset i, as the capture groups the
\* tokenizer reads (group 0, param, tag, endTag), or None.
MatchAt(s, i) ==
    IF CharAt(s, i) # "[" THEN None
    ELSE IF CharAt(s, i + 1) = "/" THEN EndTagMatch(s, i, Skip(s, i + 2, "word"))
    ELSE StartTagAt(s, i, Skip(s, i + 1, "word"))

\* CaptureMatches::next: the leftmost match at or after offset from.
RECURSIVE FindMatch(_, _)
RECURSIVE FindMatchOr(_, _, _)
FindMatchOr(s, from, m) == IF m # None THEN m ELSE FindMatch(s, from + 1)

FindMatch(s, from) ==
    IF from >= Len(s) THEN None ELSE FindMatchOr(s, from, MatchAt(s, from))

\* ------------------------------------------------------------------------
\* Fragments (tokenizer.rs:40-100)
\* ------------------------------------------------------------------------

new_text(s, range) ==
    [kind |-> "Text", value |-> Slice(s, range), range |-> range]

\* A start tag whose name is folded to lower case.
new_start_tag_folds_case(s, name, param) ==
    [kind        |-> "StartTag",
     name        |-> [i \in 1..(name.end - name.start) |->
                         IF s[name.start + i] = "B" THEN "b"
                         ELSE IF s[name.start + i] = "I" THEN "i"
                         ELSE s[name.start + i]],
     name_range  |-> name,
     param       |-> Slice(s, param),
     param_range |-> param]

new_start_tag(s, name, param) ==
    [kind        |-> "StartTag",
     name        |-> Slice(s, name),
     name_range  |-> name,
     param       |-> Slice(s, param),
     param_range |-> param]

new_end_tag(s, tag_match) ==
    [kind |-> "EndTag", value |-> Slice(s, tag_match), range |-> tag_match]

\* ------------------------------------------------------------------------
\* FragmentStream (tokenizer.rs:106-195)
\*   pos      : the cursor
\*   last_tag : the pending match, or None
\*   tags     : the offset the capture iterator searches from
\* ------------------------------------------------------------------------

FragmentStream_new == [pos |-> 0, last_tag |-> None, tags |-> 0]

\* Range::is_empty
is_empty_always_false(range) == FALSE

is_empty(range) == range.start >= range.end

\* let range = *pos..tag_match.start();
text_before_from_zero(st, m) == Range(0, m.whole.start)

text_before(st, m) == Range(st.pos, m.whole.start)

\* let range = *pos..len;
text_rest_drops_last(s, st) == Range(st.pos, Len(s) - 1)

text_rest(s, st) == Range(st.pos, Len(s))

\* The stream after a match was fetched, the match not kept.
after_match_forgets_tag(m) ==
    [pos |-> m.whole.end, last_tag |-> None, tags |-> m.whole.end]

\* The stream after a match was fetched: the cursor is at its end and the
\* match is pending.
after_match(m) == [pos |-> m.whole.end, last_tag |-> m, tags |-> m.whole.end]

\* The Some(...) of next_text when a match was found, with the text range
\* before it: an empty range returns None.
text_or_none(s, range, st2) ==
    IF is_empty(range)
    THEN [item |-> None, stream |-> st2]
    ELSE [item |-> new_text(s, range), stream |-> st2]

\* The Some(...) of next_text for what tags.next() returned.
text_for(s, st, m) ==
    IF m # None
    THEN text_or_none(s, text_before(st, m), after_match(m))
    ELSE [item   |-> new_text(s, text_rest(s, st)),
          stream |-> [pos |-> st.pos + Len(s), last_tag |-> None,
                      tags |-> Len(s)]]

\* next_text: the fragment returned (or None) and the stream afterwards.
next_text(s, st) ==
    IF st.last_tag # None THEN [item |-> None, stream |-> st]
    ELSE IF st.pos >= Len(s) THEN [item |-> None, stream |-> st]
    ELSE text_for(s, st, FindMatch(s, st.tags))

\* next_tag: takes the pending match and turns it into a tag fragment.
next_tag(s, st) ==
    IF st.last_tag = None THEN [item |-> None, stream |-> st]
    ELSE IF st.last_tag.param # None
    THEN [item   |-> new_start_tag(s, st.last_tag.tag, st.last_tag.param),
          stream |-> [st EXCEPT !.last_tag = None]]
    ELSE [item   |-> new_end_tag(s, st.last_tag.endTag),
          stream |-> [st EXCEPT !.last_tag = None]]

\* Option::or_else(next_tag) on what next_text returned.
or_else_next_tag(s, t) == IF t.item # None THEN t ELSE next_tag(s, t.stream)

\* next_fragment: next_text().or_else(next_tag)
next_fragment(s, st) == or_else_next_tag(s, next_text(s, st))

\* ------------------------------------------------------------------------
\* escape_markdown (markdown_text.rs:4-12): every leftmost match of
\* the pattern (one to six hashes, two or more of = and -, a run of * and _,
\* a dot after a digit, one of - + > at the start of the text or after
\* whitespace, two tildes, one to three backticks, an optional ! and an
\* opening bracket, an angle-bracket tag) gets a backslash in front.
\* ------------------------------------------------------------------------

\* The backtick character, which a string literal cannot hold.
Backtick == "BACKTICK"

Min(a, b) == IF a < b THEN a ELSE b

\* The offset after the run of characters of S that starts at offset i.
RECURSIVE SkipSet(_, _, _)
SkipSet(s, i, S) ==
    IF i < Len(s) /\ s[i + 1] \in S THEN SkipSet(s, i + 1, S) ELSE i

\* The offset after the last '>' of the line that holds offset i, or -1.
RECURSIVE LastGt(_, _, _)
LastGt(s, i, found) ==
    IF i >= Len(s) \/ s[i + 1] = "\n" THEN found
    ELSE LastGt(s, i + 1, IF s[i + 1] = ">" THEN i + 1 ELSE found)

\* The end of the match of the pattern anchored at offset i, or -1.
EscapeMatchAt(s, i) ==
    LET c    == CharAt(s, i)
        prev == CharAt(s, i - 1)
    IN  CASE c = "#" -> Min(SkipSet(s, i, {"#"}), i + 6)
          [] c \in {"=", "-"} /\ SkipSet(s, i, {"=", "-"}) >= i + 2 ->
                SkipSet(s, i, {"=", "-"})
          [] c \in {"*", "_"} -> SkipSet(s, i, {"*", "_"})
          [] c = "." /\ prev \in Digits -> i + 1
          [] c \in {"-", "+", ">"} /\ (i = 0 \/ prev \in Spaces) -> i + 1
          [] c = "~" /\ CharAt(s, i + 1) = "~" -> i + 2
          [] c = Backtick -> Min(SkipSet(s, i, {Backtick}), i + 3)
          [] c = "!" /\ CharAt(s, i + 1) = "[" -> i + 2
          [] c = "[" -> i + 1
          [] c = "<" -> LastGt(s, i + 1, -1)
          [] OTHER -> -1

\* A replacement that leaves a character after a backslash alone.
RECURSIVE EscapeFrom_skips_escaped(_, _)
EscapeFrom_skips_escaped(s, i) ==
    IF i >= Len(s) THEN <<>>
    ELSE IF s[i + 1] = "\\"
         THEN SubSeq(s, i + 1, i + 2) \o EscapeFrom_skips_escaped(s, i + 2)
    ELSE IF EscapeMatchAt(s, i) = -1
         THEN <<s[i + 1]>> \o EscapeFrom_skips_escaped(s, i + 1)
    ELSE <<"\\">> \o SubSeq(s, i + 1, EscapeMatchAt(s, i))
             \o EscapeFrom_skips_escaped(s, EscapeMatchAt(s, i))

RECURSIVE EscapeFrom(_, _)
EscapeFrom(s, i) ==
    IF i >= Len(s) THEN <<>>
    ELSE LET e == EscapeMatchAt(s, i)
         IN  IF e = -1
             THEN <<s[i + 1]>> \o EscapeFrom(s, i + 1)
             ELSE <<"\\">> \o SubSeq(s, i + 1, e) \o EscapeFrom(s, e)

escape_markdown(text) == EscapeFrom(text, 0)

\* ------------------------------------------------------------------------
\* NodeTag (parser.rs:131-180)
\* ------------------------------------------------------------------------

\* The index of the first c in s, or 0.
RECURSIVE IndexOf(_, _, _)
IndexOf(s, c, i) ==
    IF i > Len(s) THEN 0
    ELSE IF s[i] = c THEN i
    ELSE IndexOf(s, c, i + 1)

\* str::split(c)
RECURSIVE StrSplit(_, _)
StrSplit(s, c) ==
    LET i == IndexOf(s, c, 1)
    IN  IF i = 0 THEN <<s>>
        ELSE <<SubSeq(s, 1, i - 1)>> \o StrSplit(SubSeq(s, i + 1, Len(s)), c)

\* str::split_once(c): the parts before and after the first c, or None.
split_once(s, c) ==
    LET i == IndexOf(s, c, 1)
    IN  IF i = 0 THEN None
        ELSE [kind |-> "Some", k |-> SubSeq(s, 1, i - 1),
              v |-> SubSeq(s, i + 1, Len(s))]

\* strip_prefix and strip_suffix of a double quote: Some(rest) when v both
\* starts and ends with one, None otherwise.
strip_quotes(v) ==
    IF Len(v) >= 1 /\ v[1] = "\"" /\ Len(v) >= 2 /\ v[Len(v)] = "\""
    THEN [kind |-> "Some", v |-> SubSeq(v, 2, Len(v) - 1)]
    ELSE None

EmptyMap == [k \in {} |-> <<>>]

\* HashMap::insert
insert(map, k, v) ==
    [x \in DOMAIN map \cup {k} |-> IF x = k THEN v ELSE map[x]]

\* HashMap::remove / HashMap::get, as an Option
get(map, k) ==
    IF k \in DOMAIN map THEN [kind |-> "Some", v |-> map[k]] ELSE None

remove(map, k) == [x \in DOMAIN map \ {k} |-> map[x]]

\* The filter / filter_map / collect chain of NodeTag::split over the pieces.
RECURSIVE CollectPairs(_)
CollectPairs(pairs) ==
    IF pairs = <<>> THEN EmptyMap
    ELSE LET rest == CollectPairs(SubSeq(pairs, 1, Len(pairs) - 1))
             pair == pairs[Len(pairs)]
             kv   == split_once(pair, "=")
             val  == IF kv = None THEN None ELSE strip_quotes(kv.v)
         IN  IF pair = <<>> \/ kv = None \/ val = None
             THEN rest
             ELSE insert(rest, kv.k, val.v)

\* NodeTag::split
split(param) == CollectPairs(StrSplit(param, " "))

\* NodeTag::from_fragment / NodeTag::new
NodeTag_from_fragment(tag) ==
    [kind        |-> "NodeTag",
     name        |-> tag.name,
     name_range  |-> tag.name_range,
     params      |-> split(tag.param),
     param_range |-> tag.param_range]

\* ------------------------------------------------------------------------
\* Inner and Node (parser.rs:71-220)
\* ------------------------------------------------------------------------

Inner_None == [kind |-> "None"]
Inner_Text(value) == [kind |-> "Text", value |-> value]
Inner_Tree(value) == [kind |-> "Tree", value |-> value]

Node_tag(tag) == [tag |-> NodeTag_from_fragment(tag), inner |-> Inner_None]

Node_text(value) == [tag |-> None, inner |-> Inner_Text(value)]

Node_root == [tag |-> None, inner |-> Inner_Tree(<<>>)]

\* Node::put_text, as the inner it leaves behind.
put_text_keeps_text(inner, value) ==
    CASE inner.kind = "None" -> Inner_Text(value)
      [] inner.kind = "Text" -> Inner_Text(value)
      [] inner.kind = "Tree" -> Inner_Tree(Append(inner.value, Node_text(value)))

put_text_collapses_tree(inner, value) ==
    CASE inner.kind = "None" -> Inner_Text(value)
      [] inner.kind = "Text" ->
            Inner_Tree(<<Node_text(inner.value), Node_text(value)>>)
      [] inner.kind = "Tree" ->
            IF inner.value = <<>> THEN Inner_Text(value)
            ELSE Inner_Tree(Append(inner.value, Node_text(value)))

put_text(inner, value) ==
    CASE inner.kind = "None" -> Inner_Text(value)
      [] inner.kind = "Text" ->
            Inner_Tree(<<Node_text(inner.value), Node_text(value)>>)
      [] inner.kind = "Tree" -> Inner_Tree(Append(inner.value, Node_text(value)))

\* ------------------------------------------------------------------------
\* Errors (parser.rs:23-57) and the outcomes of a call
\* ------------------------------------------------------------------------

Error(value, range, kind) ==
    [kind |-> "Err", value |-> value, range |-> range, error |-> kind]

\* The ErrorKind variants without a payload.
UnknownTag == [kind |-> "UnknownTag"]
UnopenedTag == [kind |-> "UnopenedTag"]
UnclosedTag == [kind |-> "UnclosedTag"]

\* ErrorKind::UnexpectedTag(String, Range<usize>)
UnexpectedTag(name, range) ==
    [kind |-> "UnexpectedTag", name |-> name, range |-> range]

\* ErrorKind::MissingParam(String)
MissingParam(name) == [kind |-> "MissingParam", name |-> name]

Ok(value) == [kind |-> "Ok", value |-> value]

\* A panic (unwrap on None, todo!) or a stack overflow: the call does not
\* return.
Abort(why) == [kind |-> "Abort", why |-> why]

\* The error of parser.rs:239-245: the name of the open tag and the name range of the open tag
\* name range (the inner `range` binding shadows that of the end tag).
unclosed_error_end_range(open, end) == Error(open.name, end.range, UnclosedTag)

unclosed_error(open, end) == Error(open.name, open.name_range, UnclosedTag)

\* The error of parser.rs:248-254.
unopened_error_no_range(end) == Error(end.value, Range(0, 0), UnopenedTag)

unopened_error(end) == Error(end.value, end.range, UnopenedTag)

\* ------------------------------------------------------------------------
\* The tree under construction: a NodeBuilder is modelled by the children of
\* its node (builder.rs:147-248).
\* ------------------------------------------------------------------------

MdText(value) == [type |-> "text", value |-> value]
MdParent(type, children) == [type |-> type, children |-> children]
MdHtml(value) == [type |-> "html", value |-> value]
MdCode(value, lang) == [type |-> "code", value |-> value, lang |-> lang]
MdInlineCode(value) == [type |-> "inlineCode", value |-> value]
MdLink(url, title) ==
    [type |-> "link", url |-> url, title |-> title, children |-> <<>>]
MdImage(url, alt, title) ==
    [type |-> "image", url |-> url, alt |-> alt, title |-> title]
MdList(ordered, start, spread) ==
    [type |-> "list", ordered |-> ordered, start |-> start,
     spread |-> spread, children |-> <<>>]

\* Node::to_string of the mdast crate, which to_md_text calls (ast.rs:75-77):
\* the values of the literal nodes in document order, nothing for the voids.
RECURSIVE ToMdText(_)
ToMdText(children) ==
    IF children = <<>> THEN <<>>
    ELSE LET n == Head(children)
             t == CASE n.type \in {"text", "html", "code", "inlineCode"} -> n.value
                    [] n.type = "image" -> <<>>
                    [] OTHER -> ToMdText(n.children)
         IN  t \o ToMdText(Tail(children))

\* ------------------------------------------------------------------------
\* Names and literals of Node::build
\* ------------------------------------------------------------------------

N_b == <<"b">>
N_center == <<"c", "e", "n", "t", "e", "r">>
N_left == <<"l", "e", "f", "t">>
N_right == <<"r", "i", "g", "h", "t">>
N_code == <<"c", "o", "d", "e">>
N_color == <<"c", "o", "l", "o", "r">>
N_i == <<"i">>
N_img == <<"i", "m", "g">>
N_ol == <<"o", "l">>
N_pre == <<"p", "r", "e">>
N_quote == <<"q", "u", "o", "t", "e">>
N_s == <<"s">>
N_size == <<"s", "i", "z", "e">>
N_spoiler == <<"s", "p", "o", "i", "l", "e", "r">>
N_style == <<"s", "t", "y", "l", "e">>
N_table == <<"t", "a", "b", "l", "e">>
N_td == <<"t", "d">>
N_th == <<"t", "h">>
N_tr == <<"t", "r">>
N_u == <<"u">>
N_ul == <<"u", "l">>
N_list == <<"l", "i", "s", "t">>
N_url == <<"u", "r", "l">>
N_youtube == <<"y", "o", "u", "t", "u", "b", "e">>

N_span == <<"s", "p", "a", "n">>
N_details == <<"d", "e", "t", "a", "i", "l", "s">>
N_alt == <<"a", "l", "t">>
N_title == <<"t", "i", "t", "l", "e">>
N_width == <<"w", "i", "d", "t", "h">>
N_height == <<"h", "e", "i", "g", "h", "t">>
N_src == <<"s", "r", "c">>

\* The arms of the match in Node::build (parser.rs:299-382).
DispatchTable ==
    { N_b, N_center, N_left, N_right, N_code, N_color, N_i, N_img, N_ol,
      N_pre, N_quote, N_s, N_size, N_spoiler, N_style, N_table, N_td, N_th,
      N_tr, N_u, N_ul, N_list, N_url, N_youtube }

S_text_align == <<"t", "e", "x", "t", "-", "a", "l", "i", "g", "n", ":", " ">>
S_color == <<"c", "o", "l", "o", "r", ":", " ">>
S_font_size == <<"f", "o", "n", "t", "-", "s", "i", "z", "e", ":", " ">>
S_youtube_url ==
    << "h", "t", "t", "p", "s", ":", "/", "/", "y", "o", "u", "t", "u", "b",
       "e", ".", "c", "o", "m", "/", "w", "a", "t", "c", "h", "?", "v", "=" >>
EmDash == <<"EMDASH">>

\* The style closures (parser.rs:271-282): the map is cleared and holds the
\* one style entry.
style(css) == insert(EmptyMap, N_style, css)
align(alignment) == style(S_text_align \o alignment \o <<";">>)
color(c) == style(S_color \o c \o <<";">>)
\* The size closure writing the property of the color closure.
size_writes_color(sz) == style(S_color \o sz \o <<";">>)

size(sz) == style(S_font_size \o sz \o <<";">>)
color_size(c, sz) ==
    style(S_color \o c \o <<";", " ">> \o S_font_size \o sz \o <<";">>)

\* ------------------------------------------------------------------------
\* Iterating a HashMap (builder.rs:63-80).  The order depends on the keys of
\* the map's hasher, which differ from map to map and from run to run; a
\* seed of the model picks one permutation of the keys, and the seeds cover
\* every order of up to three keys.
\* ------------------------------------------------------------------------

HashSeeds == 0..5

CharOrder ==
    << "a", "b", "c", "d", "e", "f", "g", "h", "i", "j", "k", "l", "m", "n",
       "o", "p", "q", "r", "s", "t", "u", "v", "w", "x", "y", "z" >>

CharRank(c) ==
    IF \E i \in 1..Len(CharOrder) : CharOrder[i] = c
    THEN CHOOSE i \in 1..Len(CharOrder) : CharOrder[i] = c
    ELSE 0

RECURSIVE KeyLess(_, _)
KeyLess(a, b) ==
    IF a = <<>> THEN b # <<>>
    ELSE IF b = <<>> THEN FALSE
    ELSE IF CharRank(Head(a)) # CharRank(Head(b))
         THEN CharRank(Head(a)) < CharRank(Head(b))
    ELSE KeyLess(Tail(a), Tail(b))

RECURSIVE Ascending(_)
Ascending(keys) ==
    IF keys = {} THEN <<>>
    ELSE LET k == CHOOSE x \in keys : \A y \in keys \ {x} : KeyLess(x, y)
         IN  <<k>> \o Ascending(keys \ {k})

\* The sequence without its i-th element.
Without(q, i) == SubSeq(q, 1, i - 1) \o SubSeq(q, i + 1, Len(q))

\* The permutation of q a seed picks.
RECURSIVE Permute(_, _)
Permute(q, seed) ==
    IF q = <<>> THEN <<>>
    ELSE <<q[(seed % Len(q)) + 1]>>
             \o Permute(Without(q, (seed % Len(q)) + 1), seed \div Len(q))

iter(params, seed) == Permute(Ascending(DOMAIN params), seed)

\* ------------------------------------------------------------------------
\* Node::build and its helpers (parser.rs:116-128, 262-575)
\* ------------------------------------------------------------------------

\* The fold of build_value (builder.rs:73-80).
RECURSIVE Attributes(_, _)
Attributes(params, keys) ==
    IF keys = <<>> THEN <<>>
    ELSE <<" ">> \o Head(keys) \o <<"=", "\"">> \o params[Head(keys)]
             \o <<"\"">> \o Attributes(params, Tail(keys))

\* The value build_value gives the Html node, from the built fake root.
html_value(tag, params, built, seed) ==
    <<"<">> \o tag \o Attributes(params, iter(params, seed)) \o <<">">>
        \o ToMdText(built) \o <<"<", "/">> \o tag \o <<">", "\n">>

\* The first node of the list that carries a tag, or None.
RECURSIVE find_tag(_)
find_tag(nodes) ==
    IF nodes = <<>> THEN None
    ELSE IF Head(nodes).tag # None THEN Head(nodes).tag
    ELSE find_tag(Tail(nodes))

\* Node::get_inner_text
get_inner_text(self, inner) ==
    CASE inner.kind = "None" -> Ok(<<>>)
      [] inner.kind = "Text" -> Ok(inner.value)
      [] inner.kind = "Tree" ->
            LET unexp == find_tag(inner.value)
            IN  IF self.tag = None \/ unexp = None
                THEN Abort("unwrap")
                ELSE Error(self.tag.name, self.tag.name_range,
                           UnexpectedTag(unexp.name, unexp.name_range))

\* The shorthand pattern of build_list (parser.rs:553), which has no
\* multi-line flag: whitespace, any number of '[', a ']' and the rest of the
\* text, which must hold no line break.
li_shorthand_matches(value) ==
    LET q == Skip(value, 0, "space")
        r == SkipSet(value, q, {"["})
    IN  /\ CharAt(value, r) = "]"
        /\ \A k \in (r + 1)..Len(value) : value[k] # "\n"

\* build_list (parser.rs:541-574): collecting the items of a text that the
\* pattern matches slices the trimmed match from its fourth byte, which
\* panics on a match shorter than three bytes, and the loop over the items
\* runs into todo!() for every item with text or children; neither returns.
build_list(nb, inner, ordered) ==
    LET list  == MdList(ordered, IF ordered THEN [kind |-> "Some", v |-> 1] ELSE None, FALSE)
        items == CASE inner.kind = "None" -> <<>>
                   [] inner.kind = "Text" ->
                         IF li_shorthand_matches(inner.value)
                         THEN <<Node_text(inner.value)>>
                         ELSE <<>>
                   [] inner.kind = "Tree" -> inner.value
    IN  IF \E i \in 1..Len(items) : items[i].inner.kind # "None"
        THEN Abort("todo")
        ELSE Ok(Append(nb, list))

\* build_url (parser.rs:475-492); youtube passes an empty map and a prefix.
build_url(self, nb, inner, params, prefix) ==
    LET text == get_inner_text(self, inner)
        url  == get(params, N_url)
    IN  IF text.kind # "Ok" THEN text
        ELSE IF url # None
             THEN Ok(Append(nb, MdLink(prefix \o url.v,
                                       [kind |-> "Some", v |-> text.value])))
             ELSE Ok(Append(nb, MdLink(prefix \o text.value, None)))

\* The dimensions build_img settles on (parser.rs:505-515), or None.
img_dim(params) ==
    LET img    == get(params, N_img)
        width  == get(params, N_width)
        height == get(params, N_height)
        wh     == IF img = None THEN None ELSE split_once(img.v, "x")
    IN  IF wh # None THEN [kind |-> "Some", w |-> wh.k, h |-> wh.v]
        ELSE IF width # None /\ height # None
             THEN [kind |-> "Some", w |-> width.v, h |-> height.v]
             ELSE None

\* build_img (parser.rs:494-539)
build_img(self, nb, inner, params, seed) ==
    LET url   == get_inner_text(self, inner)
        alt   == get(params, N_alt)
        title == get(params, N_title)
        dim   == img_dim(params)
        attrs == insert(insert(insert(remove(params, N_img),
                     N_width, dim.w), N_height, dim.h), N_src, url.value)
    IN  IF url.kind # "Ok" THEN url
        ELSE IF dim # None
             THEN Ok(Append(nb, MdLink(url.value,
                     [kind |-> "Some", v |-> html_value(N_img, attrs, <<>>, seed)])))
             ELSE Ok(Append(nb, MdImage(url.value,
                                        IF alt = None THEN <<>> ELSE alt.v,
                                        title)))

\* Appends a node of the given type around what a closure built.
wrap(nb, type, built) ==
    IF built.kind # "Ok" THEN built
    ELSE Ok(Append(nb, MdParent(type, built.value)))

\* build_html (parser.rs:284-295) after the inner content was built.
build_html(nb, tag, built, params, seed) ==
    IF built.kind # "Ok" THEN built
    ELSE Ok(Append(nb, MdHtml(html_value(tag, params, built.value, seed))))

\* TextNode::set_value for Html (node_traits.rs:90-94): the text replaces
\* the value the node had.
set_value(value, text) == text

\* What the header closure of the spoiler arm appends to the value of the
\* new Html node (parser.rs:341-352).
spoiler_header(params) ==
    IF get(params, N_spoiler) # None
    THEN <<"<", "s", "u", "m", "m", "a", "r", "y", ">">>
             \o escape_markdown(params[N_spoiler])
             \o <<"<", "/", "s", "u", "m", "m", "a", "r", "y", ">">>
    ELSE <<>>

\* build_html with a header closure: build_value runs on the node the header
\* returned and ends with set_value (builder.rs:89).
build_html_after(nb, header, tag, built, params, seed) ==
    IF built.kind # "Ok" THEN built
    ELSE Ok(Append(nb, MdHtml(set_value(header,
                                  html_value(tag, params, built.value, seed)))))

RECURSIVE build(_, _, _)
RECURSIVE Inner_build(_, _, _)
RECURSIVE build_each(_, _, _)

\* The loop of Inner::build over the children, stopping at the first error.
build_each(nodes, nb, seed) ==
    IF nodes = <<>> THEN Ok(nb)
    ELSE LET r == build(Head(nodes), nb, seed)
         IN  IF r.kind # "Ok" THEN r ELSE build_each(Tail(nodes), r.value, seed)

\* Inner::build escaping a text twice.
Inner_build_escapes_twice(inner, nb, seed) ==
    CASE inner.kind = "None" -> Ok(nb)
      [] inner.kind = "Text" ->
            Ok(Append(nb, MdText(escape_markdown(escape_markdown(inner.value)))))
      [] inner.kind = "Tree" -> build_each(inner.value, nb, seed)

\* Inner::build (parser.rs:116-128)
Inner_build(inner, nb, seed) ==
    CASE inner.kind = "None" -> Ok(nb)
      [] inner.kind = "Text" -> Ok(Append(nb, MdText(escape_markdown(inner.value))))
      [] inner.kind = "Tree" -> build_each(inner.value, nb, seed)

\* Node::build (parser.rs:262-394).  The closures of the b and s arms call
\* build on the same node again, which never returns.
build(self, nb, seed) ==
    IF self.tag = None THEN Inner_build(self.inner, nb, seed)
    ELSE
    LET name   == self.tag.name
        params == self.tag.params
        inner  == self.inner
        built  == Inner_build(inner, <<>>, seed)
        span(p) == build_html(nb, N_span, built, p, seed)
    IN  CASE name \in {N_b, N_s} -> Abort("overflow")
          [] name \in {N_center, N_left, N_right} -> span(align(name))
          [] name = N_code ->
                LET code == get_inner_text(self, inner)
                    lang == get(params, N_code)
                IN  IF code.kind # "Ok" THEN code
                    ELSE Ok(Append(nb, MdCode(code.value, lang)))
          [] name = N_color ->
                IF get(params, N_color) # None
                THEN span(color(params[N_color]))
                ELSE Inner_build(inner, nb, seed)
          [] name = N_i -> wrap(nb, "emphasis", built)
          [] name = N_img -> build_img(self, nb, inner, params, seed)
          [] name = N_ol -> build_list(nb, inner, TRUE)
          [] name = N_pre ->
                LET text == get_inner_text(self, inner)
                IN  IF text.kind # "Ok" THEN text
                    ELSE Ok(Append(nb, MdInlineCode(text.value)))
          [] name = N_quote ->
                LET quoted == wrap(nb, "blockquote", built)
                IN  IF quoted.kind # "Ok" \/ get(params, N_quote) = None
                    THEN quoted
                    ELSE Ok(Append(quoted.value,
                            MdText(EmDash \o escape_markdown(params[N_quote]))))
          [] name = N_size ->
                IF get(params, N_size) # None
                THEN span(size(params[N_size]))
                ELSE Inner_build(inner, nb, seed)
          [] name = N_spoiler ->
                build_html_after(nb, spoiler_header(params), N_details, built,
                                 EmptyMap, seed)
          [] name = N_style ->
                LET c    == get(params, N_color)
                    sz   == get(params, N_size)
                    rest == remove(remove(params, N_color), N_size)
                IN  span(CASE c # None /\ sz # None -> color_size(c.v, sz.v)
                           [] c # None /\ sz = None -> color(c.v)
                           [] c = None /\ sz # None -> size(sz.v)
                           [] OTHER -> rest)
          [] name \in {N_table, N_td, N_th, N_tr} -> Abort("todo")
          [] name = N_u -> build_html(nb, N_u, built, EmptyMap, seed)
          [] name \in {N_ul, N_list} -> build_list(nb, inner, FALSE)
          [] name = N_url -> build_url(self, nb, inner, params, <<>>)
          [] name = N_youtube -> build_url(self, nb, inner, EmptyMap, S_youtube_url)
          [] OTHER -> Error(name, self.tag.name_range, UnknownTag)

\* ------------------------------------------------------------------------
\* State
\* ------------------------------------------------------------------------

VARIABLES
    input,      \* the text handed to split_fragments
    stream,     \* the FragmentStream
    yielded,    \* the fragments next() has returned so far, in order
    ended,      \* how many times next() has returned None
    stack,      \* the nodes of the running Node::parse calls, the root first
    pc,         \* where the operation stands: "drain", "parse", ..., "done"
    result,     \* what the operation returned, or None
    offset,     \* the byte offset handed to Point::new_offset
    depth       \* the depth handed to set_depth

vars == <<input, stream, yielded, ended, stack, pc, result, offset, depth>>

\* ------------------------------------------------------------------------
\* Inputs
\* ------------------------------------------------------------------------

SeqsUpTo(S, n) == UNION {[1..k -> S] : k \in 0..n}

\* Single characters and a few longer pieces, so that a short sequence of
\* pieces reaches tags with parameters as well as broken tags.
Pieces ==
    { <<"[">>, <<"]">>, <<"/">>, <<"=">>, <<"\"">>, <<" ">>, <<"b">>, <<"1">>,
      <<"[", "b">>,
      <<" ", "b", "=", "\"", "b", "\"">>,
      <<"[", "/", "b", "]">> }

Inputs == {Flatten(ps) : ps \in SeqsUpTo(Pieces, MaxPieces)}

\* ------------------------------------------------------------------------
\* Draining the stream, as tests::test does (tokenizer.rs:335-352)
\* ------------------------------------------------------------------------

Init ==
    /\ input \in Inputs
    /\ stream = FragmentStream_new
    /\ yielded = <<>>
    /\ ended = 0
    /\ stack = <<>>
    /\ pc = "drain"
    /\ result = None
    /\ offset = 0
    /\ depth = 0

\* next() returns a Text fragment.
NextText ==
    \E r \in {next_fragment(input, stream)} :
        /\ pc = "drain"
        /\ r.item.kind = "Text"
        /\ stream' = r.stream
        /\ yielded' = Append(yielded, r.item)
        /\ UNCHANGED <<input, offset, depth, ended, stack, pc, result>>

\* next() returns a StartTag or an EndTag fragment.
NextTag ==
    \E r \in {next_fragment(input, stream)} :
        /\ pc = "drain"
        /\ r.item.kind \in {"StartTag", "EndTag"}
        /\ stream' = r.stream
        /\ yielded' = Append(yielded, r.item)
        /\ UNCHANGED <<input, offset, depth, ended, stack, pc, result>>

\* next() returns None.
NextNone ==
    \E r \in {next_fragment(input, stream)} :
        /\ pc = "drain"
        /\ r.item = None
        /\ ended <= MaxExtraCalls
        /\ stream' = r.stream
        /\ ended' = ended + 1
        /\ UNCHANGED <<input, offset, depth, yielded, stack, pc, result>>

Next == NextText \/ NextTag \/ NextNone

Spec == Init /\ [][Next]_vars

\* ------------------------------------------------------------------------
\* Parsing a document: Node::root().parse(split_fragments(input)), one
\* action per arm of the loop of Node::parse (parser.rs:222-260), and then
\* the translation of the root by Node::build.
\* ------------------------------------------------------------------------

DocPieces ==
    { <<"[", "b", "]">>, <<"[", "/", "b", "]">>,
      <<"[", "c", "o", "d", "e", "]">>, <<"[", "/", "c", "o", "d", "e", "]">>,
      <<"[", "f", "o", "o", "]">>, <<"[", "/", "f", "o", "o", "]">>,
      <<"x">> }

DocInputs == {Flatten(ps) : ps \in SeqsUpTo(DocPieces, MaxDocPieces)}

ParamPieces ==
    { <<"=", "v">>,
      <<"=", "\"", "v", "\"">>,
      <<" ", "a", "=", "\"", "v", "\"">>,
      <<" ", "a", "=", "\"", "w", "\"">>,
      <<" ", "d", "=", "\"", "v", "\"">> }

\* A single tag [b...] with a parameter list.
TagInputs ==
    { <<"[", "b">> \o Flatten(ps) \o <<"]">> :
          ps \in SeqsUpTo(ParamPieces, MaxParamPieces) }

Top == stack[Len(stack)]

\* A return that unwinds every running call but the root.
Pop_to_root == <<stack[1]>>

Pop == SubSeq(stack, 1, Len(stack) - 1)

ParseInit ==
    /\ input \in DocInputs \cup TagInputs
    /\ stream = FragmentStream_new
    /\ yielded = <<>>
    /\ ended = 0
    /\ stack = <<Node_root>>
    /\ pc = "parse"
    /\ result = None
    /\ offset = 0
    /\ depth = 0

\* Fragment::Text: put_text on the node of the running call.
ParseText ==
    \E r \in {next_fragment(input, stream)} :
        /\ pc = "parse"
        /\ r.item.kind = "Text"
        /\ stream' = r.stream
        /\ yielded' = Append(yielded, r.item)
        /\ stack' = [stack EXCEPT ![Len(stack)].inner = put_text(@, r.item.value)]
        /\ UNCHANGED <<input, offset, depth, ended, pc, result>>

\* Fragment::StartTag: Self::tag(tag).parse(fragments) starts.
ParseStartTag ==
    \E r \in {next_fragment(input, stream)} :
        /\ pc = "parse"
        /\ r.item.kind = "StartTag"
        /\ stream' = r.stream
        /\ yielded' = Append(yielded, r.item)
        /\ stack' = Append(stack, Node_tag(r.item))
        /\ UNCHANGED <<input, offset, depth, ended, pc, result>>

\* Fragment::EndTag equal to the name of the open tag: break, Ok(fragments).
\* The caller keeps the stream and nothing else: the temporary node of the
\* call is dropped (parser.rs:231).
ParseEndTagClose ==
    \E r \in {next_fragment(input, stream)} :
        /\ pc = "parse"
        /\ r.item.kind = "EndTag"
        /\ Top.tag # None
        /\ r.item.value = Top.tag.name
        /\ stream' = r.stream
        /\ yielded' = Append(yielded, r.item)
        /\ stack' = Pop
        /\ UNCHANGED <<input, offset, depth, ended, pc, result>>

\* Fragment::EndTag with another name while a tag is open: Err, which every
\* caller hands on with the ? operator.
ParseEndTagMismatch ==
    \E r \in {next_fragment(input, stream)} :
        /\ pc = "parse"
        /\ r.item.kind = "EndTag"
        /\ Top.tag # None
        /\ r.item.value # Top.tag.name
        /\ stream' = r.stream
        /\ yielded' = Append(yielded, r.item)
        /\ stack' = <<>>
        /\ pc' = "done"
        /\ result' = unclosed_error(Top.tag, r.item)
        /\ UNCHANGED <<input, offset, depth, ended>>

\* Fragment::EndTag in the call without a tag (the root): Err.
ParseEndTagUnopened ==
    \E r \in {next_fragment(input, stream)} :
        /\ pc = "parse"
        /\ r.item.kind = "EndTag"
        /\ Top.tag = None
        /\ stream' = r.stream
        /\ yielded' = Append(yielded, r.item)
        /\ stack' = <<>>
        /\ pc' = "done"
        /\ result' = unopened_error(r.item)
        /\ UNCHANGED <<input, offset, depth, ended>>

\* next() returns None: the loop ends and the call returns Ok(fragments),
\* whether or not it has an open tag.  The root keeps its node for the
\* translation.
ParseEnd ==
    \E r \in {next_fragment(input, stream)} :
        /\ pc = "parse"
        /\ r.item = None
        /\ stream' = r.stream
        /\ ended' = ended + 1
        /\ IF Len(stack) > 1
           THEN stack' = Pop /\ pc' = pc
           ELSE stack' = stack /\ pc' = "build"
        /\ UNCHANGED <<input, offset, depth, yielded, result>>

\* root.build(NodeBuilder::new())
Translate ==
    /\ pc = "build"
    /\ \E seed \in HashSeeds : result' = build(stack[1], <<>>, seed)
    /\ pc' = "done"
    /\ UNCHANGED <<input, offset, depth, stream, yielded, ended, stack>>

ParseNext ==
    \/ ParseText
    \/ ParseStartTag
    \/ ParseEndTagClose
    \/ ParseEndTagMismatch
    \/ ParseEndTagUnopened
    \/ ParseEnd
    \/ Translate

ParseSpec == ParseInit /\ [][ParseNext]_vars

\* ------------------------------------------------------------------------
\* Translating one tag: the node Node::tag makes from a start tag
\* (parser.rs:189-194) is filled by Node::parse from the fragments that
\* follow and is then handed to Node::build.
\* ------------------------------------------------------------------------

\* Longest parameter list of the tag, in pieces of BuildParamPieces.
MaxBuildParams == 2

\* Longest content of the tag, in pieces of BodyPieces.
MaxBodyPieces == 2

BuildNames == DispatchTable \cup { <<"B">>, <<"I">> }

\* The pieces a parameter list of a tag of the given name is made of: the
\* parameters its arm of Node::build reads, written in the forms the tag
\* pattern accepts.
BuildParamPieces(name) ==
    CASE name = N_img ->
            { <<"=", "1", "x", "2">>,
              <<"=", "\"", "1", "x", "2", "\"">>,
              <<"=", "\"", "c", "\"">>,
              <<" ", "w", "i", "d", "t", "h", "=", "\"", "1", "\"">>,
              <<" ", "h", "e", "i", "g", "h", "t", "=", "\"", "2", "\"">> }
      [] name \in {N_color, N_size, N_style} ->
            { <<" ", "c", "o", "l", "o", "r", "=", "\"", "c", "\"">>,
              <<" ", "s", "i", "z", "e", "=", "\"", "1", "\"">>,
              <<"=", "\"", "c", "\"">>,
              <<"=", "c">> }
      [] name = N_quote ->
            { <<" ", "q", "u", "o", "t", "e", "=", "\"", "*", "\"">>,
              <<"=", "\"", "*", "\"">> }
      [] name = N_spoiler ->
            { <<" ", "s", "p", "o", "i", "l", "e", "r", "=", "\"", "*", "\"">> }
      [] name = N_url ->
            { <<" ", "u", "r", "l", "=", "\"", "c", "\"">> }
      [] OTHER ->
            { <<"=", "\"", "c", "\"">>, <<"=", "c">> }

BodyPieces ==
    { <<"u">>, <<"*">>, <<"u", "[", "i", "]", "[", "/", "i", "]", "*">>,
      <<"[", "*", "]", "u">> }

\* The end of the document: the end tag of the name, nothing, or the end tag
\* of another name.
Closers(name) == { <<"[", "/">> \o name \o <<"]">>, <<>>, <<"[", "/", "x", "]">> }

\* The closed documents of one tag with a parameter list and at most one
\* piece of content.
ParamInputs(name) ==
    { <<"[">> \o name \o Flatten(ps) \o <<"]">> \o body
              \o <<"[", "/">> \o name \o <<"]">> :
          ps \in SeqsUpTo(BuildParamPieces(name), MaxBuildParams),
          body \in {<<>>} \cup BodyPieces }

\* The documents of one tag without parameters, with its content and an end.
BodyInputs(name) ==
    { <<"[">> \o name \o <<"]">> \o Flatten(body) \o closer :
          body \in SeqsUpTo(BodyPieces, MaxBodyPieces),
          closer \in Closers(name) }

BuildInputs ==
    UNION { ParamInputs(name) \cup BodyInputs(name) : name \in BuildNames }

BuildInit ==
    /\ input \in BuildInputs
    /\ stream = FragmentStream_new
    /\ yielded = <<>>
    /\ ended = 0
    /\ stack = <<>>
    /\ pc = "open"
    /\ result = None
    /\ offset = 0
    /\ depth = 0

\* Fragment::StartTag, the first fragment: Self::tag(tag)
FrameOpen ==
    \E r \in {next_fragment(input, stream)} :
        /\ pc = "open"
        /\ r.item.kind = "StartTag"
        /\ stream' = r.stream
        /\ yielded' = Append(yielded, r.item)
        /\ stack' = <<Node_tag(r.item)>>
        /\ pc' = "parse"
        /\ UNCHANGED <<input, offset, depth, ended, result>>

\* The end tag of a tag opened inside the node.
NestedClose == Len(stack) > 1 /\ ParseEndTagClose

\* Fragment::EndTag equal to the name of the node: break, Ok(fragments); the
\* node is complete.
FrameClose ==
    \E r \in {next_fragment(input, stream)} :
        /\ pc = "parse"
        /\ Len(stack) = 1
        /\ r.item.kind = "EndTag"
        /\ r.item.value = Top.tag.name
        /\ stream' = r.stream
        /\ yielded' = Append(yielded, r.item)
        /\ pc' = "build"
        /\ UNCHANGED <<input, offset, depth, ended, stack, result>>

BuildNext ==
    \/ FrameOpen
    \/ ParseText
    \/ ParseStartTag
    \/ NestedClose
    \/ FrameClose
    \/ ParseEndTagMismatch
    \/ ParseEnd
    \/ Translate

BuildSpec == BuildInit /\ [][BuildNext]_vars

\* ------------------------------------------------------------------------
\* Point::new_offset (tmast/unist.rs:70-98)
\* ------------------------------------------------------------------------

\* Longest text handed to new_offset, in characters of PointChars.
MaxTextLen == 4

\* How far past the end of the text the offset goes.
MaxPast == 2

PointChars == {"a", "\n", "\r"}

PointTexts == SeqsUpTo(PointChars, MaxTextLen)

\* A line of split_inclusive without its terminator: the line feed, and the
\* carriage return before it if there is one.
strip_terminator(line) ==
    IF line = <<>> \/ line[Len(line)] # "\n" THEN line
    ELSE IF Len(line) >= 2 /\ line[Len(line) - 1] = "\r"
         THEN SubSeq(line, 1, Len(line) - 2)
         ELSE SubSeq(line, 1, Len(line) - 1)

\* str::lines, given the index of the first line feed of s (0 for none).
RECURSIVE lines(_)
RECURSIVE lines_at(_, _)
lines_at(s, i) ==
    IF i = 0 THEN <<s>>
    ELSE <<strip_terminator(SubSeq(s, 1, i))>> \o lines(SubSeq(s, i + 1, Len(s)))

lines(s) == IF s = <<>> THEN <<>> ELSE lines_at(s, IndexOf(s, "\n", 1))

\* The length of the terminator take_lines finds at offset n: get_next of LF,
\* or else of CRLF, or else 0.
get_next(str, n) ==
    IF CharAt(str, n) = "\n" THEN 1
    ELSE IF CharAt(str, n) = "\r" /\ CharAt(str, n + 1) = "\n" THEN 2
    ELSE 0

\* The loop of take_lines over the first count lines: the value of n.
RECURSIVE take_lines_loop(_, _, _, _)
take_lines_loop(str, ls, count, n) ==
    IF count = 0 \/ ls = <<>> THEN n
    ELSE take_lines_loop(str, Tail(ls), count - 1,
             n + Len(Head(ls)) + get_next(str, n + Len(Head(ls))))

\* take_lines(str, count).last_index(): the slice &str[..=n] has n + 1 bytes
\* and panics when str has no byte n.
take_lines_last_index(str, count) ==
    IF take_lines_loop(str, lines(str), count, 0) >= Len(str)
    THEN Abort("slice")
    ELSE Ok(take_lines_loop(str, lines(str), count, 0))

Point(line, column, off) ==
    [kind |-> "Point", line |-> line, column |-> column, offset |-> off]

\* The Point for a prefix str with line lines, the last of which starts at
\* what take_lines returned.
point_at(off, line, last) ==
    IF last.kind # "Ok" THEN last
    ELSE Point(line, off + 1 - last.value, off)

\* line - 1 on a usize: with no line the subtraction panics in a debug build
\* and wraps in a release build, where take_lines then slices past the end
\* of the empty text; the call does not return in either.
new_offset_in(off, str) ==
    IF lines(str) = <<>> THEN Abort("overflow")
    ELSE point_at(off, Len(lines(str)),
                  take_lines_last_index(str, Len(lines(str)) - 1))

\* Point::new_offset(offset, value)
new_offset(off, value) ==
    new_offset_in(off, SubSeq(value, 1, Min(Len(value), off + 1)))

PointInit ==
    /\ input \in PointTexts
    /\ offset \in 0..(MaxTextLen + MaxPast)
    /\ offset <= Len(input) + MaxPast
    /\ stream = FragmentStream_new
    /\ yielded = <<>>
    /\ ended = 0
    /\ stack = <<>>
    /\ pc = "point"
    /\ result = None
    /\ depth = 0

NewOffset ==
    /\ pc = "point"
    /\ result' = new_offset(offset, input)
    /\ pc' = "done"
    /\ UNCHANGED <<input, offset, depth, stream, yielded, ended, stack>>

PointNext == NewOffset

PointSpec == PointInit /\ [][PointNext]_vars

\* ------------------------------------------------------------------------
\* Escaping a raw string, and escaping the result once more
\* (markdown_text.rs:10-12)
\* ------------------------------------------------------------------------

\* Longest raw string, in characters of EscapeChars.
MaxEscapeLen == 3

EscapeChars == {"#", "1", ".", "-", "+", "*", " ", "a", "<", ">"}

EscapeTexts == SeqsUpTo(EscapeChars, MaxEscapeLen)

EscapeInit ==
    /\ input \in EscapeTexts
    /\ stream = FragmentStream_new
    /\ yielded = <<>>
    /\ ended = 0
    /\ stack = <<>>
    /\ pc = "escape"
    /\ result = None
    /\ offset = 0
    /\ depth = 0

\* escape_markdown(text) on the raw string
Escape ==
    /\ pc = "escape"
    /\ result' = Ok(escape_markdown(input))
    /\ pc' = "escaped"
    /\ UNCHANGED <<input, offset, depth, stream, yielded, ended, stack>>

\* escape_markdown(text) on what the first call returned
EscapeAgain ==
    /\ pc = "escaped"
    /\ result' = Ok(escape_markdown(result.value))
    /\ pc' = "done"
    /\ UNCHANGED <<input, offset, depth, stream, yielded, ended, stack>>

EscapeNext == Escape \/ EscapeAgain

EscapeSpec == EscapeInit /\ [][EscapeNext]_vars

\* ------------------------------------------------------------------------
\* NodeBuilder<Heading>::set_depth (builder.rs:42-49) on a new heading
\* ------------------------------------------------------------------------

\* The largest u8.
U8Max == 255

\* new_heading (builder.rs:492-500)
new_heading == [type |-> "heading", depth |-> 1, children |-> <<>>]

\* assert_matches!(depth, 1..6): the range pattern has no '=', so its end is
\* exclusive (the exclusive_range_pattern feature, lib.rs:3).
depth_matches(d) == d >= 1 /\ d < 6

\* set_depth: the assertion, then the assignment.
set_depth(node, d) ==
    IF depth_matches(d) THEN Ok([node EXCEPT !.depth = d]) ELSE Abort("assert")

HeadingInit ==
    /\ depth \in 0..U8Max
    /\ input = <<>>
    /\ stream = FragmentStream_new
    /\ yielded = <<>>
    /\ ended = 0
    /\ stack = <<>>
    /\ pc = "heading"
    /\ result = None
    /\ offset = 0

SetDepth ==
    /\ pc = "heading"
    /\ result' = set_depth(new_heading, depth)
    /\ pc' = "done"
    /\ UNCHANGED <<input, offset, depth, stream, yielded, ended, stack>>

HeadingNext == SetDepth

HeadingSpec == HeadingInit /\ [][HeadingNext]_vars

\* ------------------------------------------------------------------------
\* Properties of the fragment stream
\* ------------------------------------------------------------------------

IsTag(f) == f.kind \in {"StartTag", "EndTag"}

\* The literal text a fragment stands for.
Literal(f) ==
    CASE f.kind = "Text"     -> f.value
      [] f.kind = "StartTag" -> <<"[">> \o f.param \o <<"]">>
      [] f.kind = "EndTag"   -> <<"[", "/">> \o f.value \o <<"]">>

\* The source range of that literal text, computed from the ranges the
\* fragment carries.
Extent(f) ==
    CASE f.kind = "Text"     -> f.range
      [] f.kind = "StartTag" -> Range(f.name_range.start - 1, f.param_range.end + 1)
      [] f.kind = "EndTag"   -> Range(f.range.start - 2, f.range.end + 1)

Literals == Flatten([i \in 1..Len(yielded) |-> Literal(yielded[i])])

Kinds == [i \in 1..Len(yielded) |-> yielded[i].kind]

\* C1: the literal texts of the fragments yielded so far, concatenated in
\* emission order, are always a prefix of the input, and once next() has
\* returned None they are the whole input: nothing is dropped, duplicated or
\* reordered.
RoundTrip ==
    /\ Literals = SubSeq(input, 1, Len(Literals))
    /\ ended > 0 => Literals = input

RoundTripWitness ==
    /\ ended > 0
    /\ {"Text", "StartTag", "EndTag"} \subseteq {yielded[i].kind : i \in 1..Len(yielded)}

\* [name]text[/name] with a non-empty name of word characters and a non-empty
\* text without brackets.
IsTagTextTag(s) ==
    \E n \in 1..Len(s), t \in 1..Len(s) :
        /\ Len(s) = 2 * n + t + 5
        /\ s[1] = "["
        /\ \A k \in 1..n : InClass("word", s[1 + k])
        /\ s[n + 2] = "]"
        /\ \A k \in 1..t : s[n + 2 + k] \notin {"[", "]"}
        /\ s[n + t + 3] = "["
        /\ s[n + t + 4] = "/"
        /\ SubSeq(s, n + t + 5, 2 * n + t + 4) = SubSeq(s, 2, n + 1)
        /\ s[Len(s)] = "]"

\* C2: every fragment carries its exact range: the fragments tile the input
\* from offset 0 in strictly increasing position; a Text is input[range]
\* with range running from the cursor to the start of the next match (or to
\* the end of the input); a StartTag's name and parameter ranges both begin
\* right after '[' and the parameter range ends right before ']'; an EndTag's
\* range is the name between '[/' and ']'.  [tag]text[/tag] yields exactly
\* StartTag, Text, EndTag.
BoundaryExact ==
    /\ \A i \in 1..Len(yielded) :
          LET f      == yielded[i]
              cursor == IF i = 1 THEN 0 ELSE Extent(yielded[i - 1]).end
              m      == FindMatch(input, cursor)
          IN  /\ Extent(f).start = cursor
              /\ Extent(f).start < Extent(f).end
              /\ Extent(f).end <= Len(input)
              /\ f.kind = "Text" =>
                    /\ f.value = Slice(input, f.range)
                    /\ f.range.end = IF m = None THEN Len(input) ELSE m.whole.start
              /\ f.kind = "StartTag" =>
                    /\ CharAt(input, f.name_range.start - 1) = "["
                    /\ f.param_range.start = f.name_range.start
                    /\ f.name_range.end <= f.param_range.end
                    /\ CharAt(input, f.param_range.end) = "]"
                    /\ f.name = Slice(input, f.name_range)
                    /\ f.param = Slice(input, f.param_range)
              /\ f.kind = "EndTag" =>
                    /\ CharAt(input, f.range.start - 2) = "["
                    /\ CharAt(input, f.range.start - 1) = "/"
                    /\ CharAt(input, f.range.end) = "]"
                    /\ f.value = Slice(input, f.range)
    /\ (ended > 0 /\ IsTagTextTag(input)) =>
          Kinds = <<"StartTag", "Text", "EndTag">>

BoundaryExactWitness ==
    /\ ended > 0
    /\ IsTagTextTag(input)
    /\ Len(yielded) = 3

\* C3: no Text fragment is empty; when a match starts at the cursor the call
\* returns the tag itself; a tag that ends the input is the last fragment.
NoEmptyText ==
    /\ \A i \in 1..Len(yielded) :
          yielded[i].kind = "Text" => yielded[i].value # <<>>
    /\ (stream.last_tag = None /\ MatchAt(input, stream.pos) # None) =>
          IsTag(next_fragment(input, stream).item)
    /\ \A i \in 1..Len(yielded) :
          (ended > 0 /\ IsTag(yielded[i]) /\ Extent(yielded[i]).end = Len(input))
              => i = Len(yielded)

NoEmptyTextWitness ==
    /\ ended > 0
    /\ Len(yielded) >= 2
    /\ IsTag(yielded[1])
    /\ IsTag(yielded[2])
    /\ IsTag(yielded[Len(yielded)])

\* ------------------------------------------------------------------------
\* Properties of the parser
\* ------------------------------------------------------------------------

Some(v) == [kind |-> "Some", v |-> v]

CountKind(k) == Cardinality({i \in 1..Len(yielded) : yielded[i].kind = k})

\* Every start tag read so far has been closed by an end tag.
Balanced == CountKind("StartTag") = CountKind("EndTag")

IsParseError(r) == r.kind = "Err" /\ r.error \in {UnclosedTag, UnopenedTag}

\* The mapping the parameter grammar describes: the value after name= under
\* the empty key, then every key="value" pair under its key, the last
\* occurrence of a key winning.
RECURSIVE KeyedEntries(_, _, _)
KeyedEntries(raw, p, map) ==
    LET q == Skip(raw, p, "space")
        k == Skip(raw, q, "alpha")
        w == Skip(raw, k + 2, "nquot")
    IN  IF KeyedParamAt(raw, p) = -1 THEN map
        ELSE KeyedEntries(raw, w + 1,
                 insert(map, Slice(raw, Range(q, k)), Slice(raw, Range(k + 2, w))))

GrammarParams(raw, name) ==
    LET n == Len(name)
        v == Skip(raw, n + 1, "nsb")
    IN  IF CharAt(raw, n) = "="
        THEN KeyedEntries(raw, v, insert(EmptyMap, <<>>, Slice(raw, Range(n + 1, v))))
        ELSE KeyedEntries(raw, n, EmptyMap)

\* C4: the parameters of every open start tag are the mapping its raw
\* parameter string describes: the unkeyed value under the empty key, each
\* quoted pair under its key without the quotes, the last duplicate winning.
ParamParsing ==
    \A i \in 1..Len(stack) :
        stack[i].tag # None =>
            stack[i].tag.params =
                GrammarParams(Slice(input, stack[i].tag.param_range), stack[i].tag.name)

\* The number of nodes with a tag in the tree below a node.
RECURSIVE CountTagNodes(_)
RECURSIVE CountTagNodesIn(_)
CountTagNodesIn(nodes) ==
    IF nodes = <<>> THEN 0
    ELSE CountTagNodes(Head(nodes)) + CountTagNodesIn(Tail(nodes))

CountTagNodes(node) ==
    (IF node.tag # None THEN 1 ELSE 0)
        + (IF node.inner.kind = "Tree" THEN CountTagNodesIn(node.inner.value) ELSE 0)

\* C5: once the root has read a properly closed document, every start tag
\* is a node of the tree: each completed child became one entry of the
\* content of its parent.
Nesting ==
    (pc = "build" /\ Balanced) =>
        CountTagNodes(stack[1]) = CountKind("StartTag")

\* C6: when the stream ends while a call with an open tag is running, the
\* call returns UnclosedTag with the name of that tag.
UnclosedAtEnd ==
    [][(/\ pc = "parse"
        /\ Len(stack) > 1
        /\ next_fragment(input, stream).item = None)
          => /\ result'.kind = "Err"
             /\ result'.error = UnclosedTag
             /\ result'.value = Top.tag.name]_vars

\* C7: an end tag whose name differs from the open tag T ends the parse with
\* UnclosedTag carrying the name and the name range of T, and nothing is read
\* from the stream afterwards.
MismatchedEndTag ==
    [][/\ (/\ pc = "parse"
            /\ next_fragment(input, stream).item.kind = "EndTag"
            /\ Top.tag # None
            /\ next_fragment(input, stream).item.value # Top.tag.name)
              => /\ result' = Error(Top.tag.name, Top.tag.name_range, UnclosedTag)
                 /\ pc' = "done"
       /\ IsParseError(result) => (stream' = stream /\ yielded' = yielded)]_vars

MismatchedEndTagWitness ==
    /\ result.kind = "Err"
    /\ result.error = UnclosedTag
    /\ yielded[Len(yielded)].kind = "EndTag"
    /\ yielded[Len(yielded)].value # result.value
    /\ yielded[Len(yielded)].range # result.range

\* C8: an end tag read by the root call ends the parse with UnopenedTag
\* carrying the name and the range of that end tag.
UnopenedEndTag ==
    [][(/\ pc = "parse"
        /\ next_fragment(input, stream).item.kind = "EndTag"
        /\ Top.tag = None)
          => /\ result' = Error(next_fragment(input, stream).item.value,
                                next_fragment(input, stream).item.range,
                                UnopenedTag)
             /\ pc' = "done"]_vars

UnopenedEndTagWitness ==
    /\ result.kind = "Err"
    /\ result.error = UnopenedTag
    /\ yielded[Len(yielded)].kind = "EndTag"
    /\ yielded[Len(yielded)].value = result.value
    /\ Len(yielded) >= 2

FirstStartTag ==
    yielded[CHOOSE i \in 1..Len(yielded) :
                /\ yielded[i].kind = "StartTag"
                /\ \A j \in 1..(i - 1) : yielded[j].kind # "StartTag"]

\* C9: a properly closed document whose tags all have names outside the
\* dispatch table fails with UnknownTag carrying the name and the name range
\* of its first tag.
UnknownTagRejected ==
    (/\ pc = "done"
     /\ ~IsParseError(result)
     /\ Balanced
     /\ CountKind("StartTag") > 0
     /\ \A i \in 1..Len(yielded) :
           yielded[i].kind = "StartTag" => yielded[i].name \notin DispatchTable)
        => result = Error(FirstStartTag.name, FirstStartTag.name_range, UnknownTag)

\* C10: a properly closed document that starts with a code tag whose content
\* starts with another tag fails with UnexpectedTag naming that nested tag
\* and its range.
VerbatimRejectsNesting ==
    (/\ pc = "done"
     /\ ~IsParseError(result)
     /\ Balanced
     /\ Len(yielded) >= 2
     /\ yielded[1].kind = "StartTag"
     /\ yielded[1].name = N_code
     /\ yielded[2].kind = "StartTag")
        => /\ result.kind = "Err"
           /\ result.error = UnexpectedTag(yielded[2].name, yielded[2].name_range)

\* ------------------------------------------------------------------------
\* Properties of the whole operation
\* ------------------------------------------------------------------------

BadNesting == [kind |-> "Bad"]

\* The names of the start tags of a fragment sequence that are still open,
\* innermost last, or BadNesting when an end tag closes anything but the
\* innermost open tag.
RECURSIVE WalkTags(_, _)
WalkTags(frags, open) ==
    IF frags = <<>> THEN [kind |-> "Open", names |-> open]
    ELSE CASE Head(frags).kind = "Text" -> WalkTags(Tail(frags), open)
           [] Head(frags).kind = "StartTag" ->
                 WalkTags(Tail(frags), Append(open, Head(frags).name))
           [] Head(frags).kind = "EndTag" ->
                 IF open # <<>> /\ open[Len(open)] = Head(frags).value
                 THEN WalkTags(Tail(frags), SubSeq(open, 1, Len(open) - 1))
                 ELSE BadNesting

OpenNames == WalkTags(yielded, <<>>)

\* The fragments read so far hold a structural error condition: an end tag
\* that closes nothing or the wrong tag, or the end of the stream with a tag
\* still open.
StructuralError ==
    \/ OpenNames = BadNesting
    \/ ended > 0 /\ OpenNames.names # <<>>

\* The fragments read so far hold a semantic error condition: a start tag
\* with a name outside the dispatch table.
SemanticError ==
    \E i \in 1..Len(yielded) :
        yielded[i].kind = "StartTag" /\ yielded[i].name \notin DispatchTable

\* C11: an input with an error condition, structural or semantic, ends with
\* an error and no tree; when the document starts with an unknown tag that is
\* closed at once, that tag is the first offending tag in source order and
\* its UnknownTag error is the one returned, whatever follows.
FailureSemantics ==
    pc = "done" =>
        /\ (StructuralError \/ SemanticError) => result.kind = "Err"
        /\ (/\ Len(yielded) >= 2
            /\ yielded[1].kind = "StartTag"
            /\ yielded[1].name \notin DispatchTable
            /\ yielded[2].kind = "EndTag"
            /\ yielded[2].value = yielded[1].name)
              => result = Error(yielded[1].name, yielded[1].name_range, UnknownTag)

\* ------------------------------------------------------------------------
\* Properties of the translation of one tag
\* ------------------------------------------------------------------------

\* The node was completed and translated.
Translated == pc = "done" /\ Len(stack) = 1 /\ ~IsParseError(result)

TheTag == stack[1].tag

DimValues == { <<"1">>, <<"2">> }

\* The raw parameter string of [img=wxh].
ShorthandForm(w, h) == N_img \o <<"=">> \o w \o <<"x">> \o h

\* The raw parameter string of [img width="w" height="h"].
KeyedForm(w, h) ==
    N_img \o <<" ", "w", "i", "d", "t", "h", "=", "\"">> \o w \o <<"\"", " ", "h", "e", "i", "g", "h", "t", "=", "\"">> \o h \o <<"\"">>

\* The attribute set width=w, height=h, src=url.
ImgAttributes(w, h, url) ==
    insert(insert(insert(EmptyMap, N_width, w), N_height, h), N_src, url)

\* One link node whose title is an img element with the attribute set, in
\* any order.
IsImgWith(r, attrs, url) ==
    /\ r.kind = "Ok"
    /\ Len(r.value) = 1
    /\ r.value[1].type = "link"
    /\ r.value[1].url = url
    /\ \E seed \in HashSeeds :
          r.value[1].title = Some(html_value(N_img, attrs, <<>>, seed))

\* C12: [img width="w" height="h"]url[/img] and [img=wxh]url[/img] both
\* translate to the same kind of node, carrying the attribute set width=w,
\* height=h, src=url.
ImageDimensionFallback ==
    \A w \in DimValues, h \in DimValues :
        (/\ Translated
         /\ ended = 0
         /\ TheTag.name = N_img
         /\ stack[1].inner.kind = "Text"
         /\ \/ Slice(input, TheTag.param_range) = ShorthandForm(w, h)
            \/ Slice(input, TheTag.param_range) = KeyedForm(w, h))
            => IsImgWith(result, ImgAttributes(w, h, stack[1].inner.value),
                         stack[1].inner.value)

\* The keyed form alone does translate to that node.
KeyedImageTranslated ==
    /\ Translated
    /\ ended = 0
    /\ Slice(input, TheTag.param_range) = KeyedForm(<<"1">>, <<"2">>)
    /\ stack[1].inner.kind = "Text"
    /\ IsImgWith(result, ImgAttributes(<<"1">>, <<"2">>, stack[1].inner.value),
                 stack[1].inner.value)

\* C13: the result of translating a node is a function of the node alone:
\* whichever order the parameter map is iterated in, the same error or the
\* same tree, HTML values included, is returned.
Deterministic ==
    [][pc = "build" =>
          \A seed \in HashSeeds : result' = build(stack[1], <<>>, seed)]_vars

\* C14: the node of the root call has no tag and holds the child-list
\* variant from Node::root on, through every put_text and every step of
\* Node::parse; it is never the empty variant nor a bare text leaf.
RootIsTree ==
    stack # <<>> =>
        /\ stack[1].tag = None
        /\ stack[1].inner.kind = "Tree"

\* A document that is a single text run was read to its end.
RootIsTreeWitness ==
    /\ pc = "build"
    /\ Len(yielded) = 1
    /\ yielded[1].kind = "Text"
    /\ stack[1].inner = Inner_Tree(<<Node_text(input)>>)

\* ------------------------------------------------------------------------
\* Properties of Point::new_offset
\* ------------------------------------------------------------------------

\* The line feeds of s that end at or before a byte offset; the line feed of
\* a CRLF is the end of that terminator, so each terminator counts once.
LineFeedsBefore(s, off) == {j \in 1..Len(s) : s[j] = "\n" /\ j <= off}

\* The offset of the first character of the line that holds a byte offset.
LineStart(s, off) ==
    IF LineFeedsBefore(s, off) = {} THEN 0
    ELSE CHOOSE j \in LineFeedsBefore(s, off) :
             \A k \in LineFeedsBefore(s, off) : k <= j

\* The number of lines of a text: a terminator at the very end opens no
\* further line.
LineCount(s) ==
    Cardinality(LineFeedsBefore(s, Len(s)))
        + (IF s # <<>> /\ s[Len(s)] # "\n" THEN 1 ELSE 0)

\* The point of an offset inside the text.
PointInside(off, s) ==
    Point(1 + Cardinality(LineFeedsBefore(s, off)), off - LineStart(s, off) + 1, off)

\* The point of an offset at or past the end of the text.
PointPast(off, s) ==
    Point(LineCount(s), off + 1 - LineStart(s, Len(s) - 1), off)

\* C15: new_offset returns the offset unchanged, with line = 1 + the number
\* of line terminators that end before the offset and column = the offset
\* minus the offset of the first character of its line, plus 1; at or past
\* the end of the text the line is the line count of the text and the column
\* counts on from the start of the last line.
PointCorrect ==
    pc = "done" =>
        result = IF offset < Len(input)
                 THEN PointInside(offset, input)
                 ELSE PointPast(offset, input)

\* The same for every text that is not empty.
PointCorrectNonEmpty == input # <<>> => PointCorrect

\* ------------------------------------------------------------------------
\* Properties of escape_markdown
\* ------------------------------------------------------------------------

\* The offsets at which the replacement finds a span of the raw string.
RECURSIVE SpanStarts(_, _)
SpanStarts(s, i) ==
    IF i >= Len(s) THEN {}
    ELSE IF EscapeMatchAt(s, i) = -1 THEN SpanStarts(s, i + 1)
    ELSE {i} \cup SpanStarts(s, EscapeMatchAt(s, i))

\* The span at offset i is one that the pattern matches only because of the
\* character before it: a dot after a digit, or a single - + > at the start
\* of the text or after whitespace.
ByLookbehind(s, i) ==
    \/ CharAt(s, i) \in {".", "+", ">"}
    \/ CharAt(s, i) = "-" /\ SkipSet(s, i, {"=", "-"}) < i + 2

\* The raw string has a span the pattern matches whatever precedes it.
HasFreeSpan(s) == \E i \in SpanStarts(s, 0) : ~ByLookbehind(s, i)

\* C16 as stated: for every raw string with at least one escapable span the
\* second application changes the result of the first.
NotIdempotent ==
    [][(pc = "escaped" /\ SpanStarts(input, 0) # {}) => result' # result]_vars

\* C16 as amended: the second application changes the result of the first
\* exactly when the raw string has a span that is matched whatever precedes
\* it; when every span is a dot after a digit or a - + > at the start of the
\* text or after whitespace, the backslash put in front hides it from the
\* second application, which changes nothing.
NotIdempotentFreeSpans ==
    [][pc = "escaped" => ((result' # result) <=> HasFreeSpan(input))]_vars

\* A string with both kinds of span was escaped twice, and only the free
\* span got a second backslash.
NotIdempotentWitness ==
    /\ pc = "done"
    /\ HasFreeSpan(input)
    /\ \E i \in SpanStarts(input, 0) : ByLookbehind(input, i)
    /\ result.value # escape_markdown(input)
    /\ Len(result.value) = Len(input) + 1 + Cardinality(SpanStarts(input, 0))

\* ------------------------------------------------------------------------
\* Properties of the content of a frame
\* ------------------------------------------------------------------------

\* The values of the Text fragments each open frame has received, the
\* outermost frame first: a start tag opens a frame, an end tag closes the
\* innermost one, and the outermost frame is kept when it is closed.
RECURSIVE FrameTexts(_, _)
FrameTexts(frags, frames) ==
    IF frags = <<>> THEN frames
    ELSE CASE Head(frags).kind = "Text" ->
                 FrameTexts(Tail(frags),
                     [frames EXCEPT ![Len(frames)] = Append(@, Head(frags).value)])
           [] Head(frags).kind = "StartTag" ->
                 FrameTexts(Tail(frags), Append(frames, <<>>))
           [] Head(frags).kind = "EndTag" ->
                 FrameTexts(Tail(frags),
                     IF Len(frames) > 1 THEN SubSeq(frames, 1, Len(frames) - 1)
                     ELSE frames)

\* The text leaves a content holds, in order.
TextLeaves(inner) ==
    CASE inner.kind = "None" -> <<>>
      [] inner.kind = "Text" -> <<inner.value>>
      [] inner.kind = "Tree" ->
            [j \in 1..Len(inner.value) |-> inner.value[j].inner.value]

\* The variant put_text leaves behind after n calls on an empty content.
VariantAfter(n) == IF n = 0 THEN "None" ELSE IF n = 1 THEN "Text" ELSE "Tree"

\* C17: the content of a frame starts empty, is a single text leaf after one
\* put_text and a list from the second on, and its text leaves, read in
\* order, are exactly the values put_text was called with, in call order.
TextAccumulation ==
    \A i \in 1..Len(stack) :
        /\ TextLeaves(stack[i].inner) = FrameTexts(yielded, <<>>)[i]
        /\ stack[i].inner.kind = VariantAfter(Len(TextLeaves(stack[i].inner)))

\* A frame received three different texts: the leaf was upgraded to a list
\* and the list was appended to.
TextAccumulationWitness ==
    /\ pc = "build"
    /\ stack[1].inner.kind = "Tree"
    /\ Len(stack[1].inner.value) = 3
    /\ TextLeaves(stack[1].inner)[1] # TextLeaves(stack[1].inner)[2]
    /\ TextLeaves(stack[1].inner)[2] # TextLeaves(stack[1].inner)[3]

\* ------------------------------------------------------------------------
\* Properties of a properly nested document
\* ------------------------------------------------------------------------

\* The names of the tags of the running calls, the innermost last.
FrameNames == [i \in 1..(Len(stack) - 1) |-> stack[i + 1].tag.name]

\* C18: while the fragments read so far are properly nested, the running
\* calls are exactly the tags still open, so an end tag equal to the name of
\* the open tag closes the innermost frame and nothing else; and when the
\* whole input is properly nested and closed, the root call ends normally at
\* the first end of stream, without a parse error, every fragment read once.
NormalClose ==
    /\ (pc = "parse" /\ ended = 0 /\ OpenNames # BadNesting)
          => FrameNames = OpenNames.names
    /\ (pc \in {"build", "done"} /\ OpenNames # BadNesting /\ OpenNames.names = <<>>)
          => /\ ~IsParseError(result)
             /\ Len(stack) = 1
             /\ ended = 1
             /\ Literals = input

\* A document with a tag closed inside another tag was read to its end.
NormalCloseWitness ==
    /\ pc = "build"
    /\ OpenNames # BadNesting
    /\ OpenNames.names = <<>>
    /\ Len(yielded) >= 4
    /\ yielded[1].kind = "StartTag"
    /\ yielded[2].kind = "StartTag"
    /\ yielded[3].kind = "EndTag"

\* ------------------------------------------------------------------------
\* Properties of the dispatch on the tag name
\* ------------------------------------------------------------------------

LowerChar(c) == IF c = "B" THEN "b" ELSE IF c = "I" THEN "i" ELSE c

Lower(name) == [i \in 1..Len(name) |-> LowerChar(name[i])]

\* The name of the translated tag as it is written in the input.
WrittenName == Slice(input, yielded[1].name_range)

\* C19: a tag whose written name is not a name of the dispatch table but
\* becomes one when folded to lower case is emitted by the tokenizer as a
\* StartTag with the name as written, and Node::build rejects it with
\* UnknownTag carrying that name and its range.
CaseSensitiveDispatch ==
    (/\ Translated
     /\ WrittenName \notin DispatchTable
     /\ Lower(WrittenName) \in DispatchTable)
        => /\ yielded[1].kind = "StartTag"
           /\ yielded[1].name = WrittenName
           /\ result = Error(WrittenName, yielded[1].name_range, UnknownTag)

\* [B]...[/B] was read to its end tag and translated.
CaseSensitiveDispatchWitness ==
    /\ Translated
    /\ ended = 0
    /\ WrittenName = <<"B">>
    /\ yielded[Len(yielded)] = new_end_tag(input, yielded[Len(yielded)].range)
    /\ yielded[Len(yielded)].value = <<"B">>
    /\ result.kind = "Err"

\* ------------------------------------------------------------------------
\* Properties of the color and size tags
\* ------------------------------------------------------------------------

\* The children of the translated tag as the parent builder receives them
\* when the tag is absent: one text node per text leaf, escaped.
ChildrenBuilt ==
    [j \in 1..Len(TextLeaves(stack[1].inner)) |->
        MdText(escape_markdown(TextLeaves(stack[1].inner)[j]))]

\* The text of the children inside a generated element.
ChildrenText ==
    Flatten([j \in 1..Len(TextLeaves(stack[1].inner)) |->
                escape_markdown(TextLeaves(stack[1].inner)[j])])

\* A span element whose only attribute is a style with one property.
SpanWith(property, v) ==
    <<"<", "s", "p", "a", "n", " ", "s", "t", "y", "l", "e", "=", "\"">> \o property
        \o <<":", " ">> \o v \o <<";", "\"", ">">> \o ChildrenText
        \o <<"<", "/", "s", "p", "a", "n", ">", "\n">>

\* The CSS property a tag name stands for.
PropertyOf(name) == IF name = N_color THEN N_color ELSE <<"f", "o", "n", "t", "-", "s", "i", "z", "e">>

\* C20: a color (size) tag without a color (size) entry in its parameter map
\* translates to Ok with its children appended to the parent builder as if
\* the tag were absent; with the entry, the children are wrapped in one HTML
\* span whose only attribute is a style carrying that single value.
ColorSizeFallback ==
    (Translated /\ TheTag.name \in {N_color, N_size}) =>
        IF TheTag.name \in DOMAIN TheTag.params
        THEN result = Ok(<<MdHtml(SpanWith(PropertyOf(TheTag.name),
                                           TheTag.params[TheTag.name]))>>)
        ELSE result = Ok(ChildrenBuilt)

\* A size tag without a size entry and with two text children was
\* translated.
ColorSizeFallbackWitness ==
    /\ Translated
    /\ TheTag.name = N_size
    /\ DOMAIN TheTag.params # {}
    /\ N_size \notin DOMAIN TheTag.params
    /\ stack[1].inner.kind = "Tree"
    /\ result.kind = "Ok"
    /\ Len(result.value) = 2

\* A size tag with a size entry was translated into a span.
SizeSpanWitness ==
    /\ Translated
    /\ TheTag.name = N_size
    /\ N_size \in DOMAIN TheTag.params
    /\ stack[1].inner.kind = "Tree"
    /\ result.kind = "Ok"
    /\ result.value[1].type = "html"

\* ------------------------------------------------------------------------
\* Properties of the parameters a tag requires
\* ------------------------------------------------------------------------

\* C21: translating a color tag whose parameter map has no color entry
\* returns an error of kind MissingParam naming the parameter color.
MissingParamReported ==
    (/\ Translated
     /\ ended = 0
     /\ TheTag.name = N_color
     /\ N_color \notin DOMAIN TheTag.params)
        => /\ result.kind = "Err"
           /\ result.error = MissingParam(N_color)

\* ------------------------------------------------------------------------
\* Properties of the img tag
\* ------------------------------------------------------------------------

\* The parameter map of the translated tag holds a dimension: a width, a
\* height, or an img entry of the form WxH.
DimensionSupplied ==
    \/ N_width \in DOMAIN TheTag.params
    \/ N_height \in DOMAIN TheTag.params
    \/ /\ N_img \in DOMAIN TheTag.params
       /\ IndexOf(TheTag.params[N_img], "x", 1) # 0

\* The text content of the translated tag, empty when it has none.
ContentText ==
    IF stack[1].inner.kind = "Text" THEN stack[1].inner.value ELSE <<>>

IsPrefix(p, q) == Len(p) <= Len(q) /\ SubSeq(q, 1, Len(p)) = p

\* C22: an img tag with at least one of width and height supplied, through
\* the WxH form or through a width or a height parameter alone, translates
\* to a link whose title is an HTML img element; with neither it translates
\* to a plain image node carrying the url, the alt and the title.
ImageEmission ==
    (/\ Translated
     /\ ended = 0
     /\ TheTag.name = N_img
     /\ stack[1].inner.kind # "Tree")
        => /\ result.kind = "Ok"
           /\ Len(result.value) = 1
           /\ IF DimensionSupplied
              THEN /\ result.value[1].type = "link"
                   /\ result.value[1].url = ContentText
                   /\ result.value[1].title # None
                   /\ IsPrefix(<<"<">> \o N_img, result.value[1].title.v)
              ELSE result.value[1] =
                      MdImage(ContentText,
                              IF N_alt \in DOMAIN TheTag.params
                              THEN TheTag.params[N_alt] ELSE <<>>,
                              get(TheTag.params, N_title))

\* C23: an img tag whose img entry has no 'x' separator translates to an
\* error carrying the raw value and its source range, never to a link built
\* from the width and height parameters nor to a plain image.
MalformedDimensionRejected ==
    (/\ Translated
     /\ ended = 0
     /\ TheTag.name = N_img
     /\ stack[1].inner.kind # "Tree"
     /\ N_img \in DOMAIN TheTag.params
     /\ IndexOf(TheTag.params[N_img], "x", 1) = 0)
        => /\ result.kind = "Err"
           /\ result.value = TheTag.params[N_img]
           /\ Slice(input, result.range) = TheTag.params[N_img]

\* ------------------------------------------------------------------------
\* Properties of the quote tag
\* ------------------------------------------------------------------------

\* The attribution line of the translated quote tag.
Attribution == MdText(EmDash \o escape_markdown(TheTag.params[N_quote]))

\* C24: a quote tag translates to one block-quote node appended to the
\* parent; with a quote parameter the last child of that block-quote is the
\* text leaf made of an em dash and the escaped name, after the translated
\* content; without it the block-quote holds the translated content alone.
QuoteAttribution ==
    (Translated /\ ended = 0 /\ TheTag.name = N_quote)
        => /\ result.kind = "Ok"
           /\ Len(result.value) = 1
           /\ result.value[1].type = "blockquote"
           /\ result.value[1].children =
                 IF N_quote \in DOMAIN TheTag.params
                 THEN Append(ChildrenBuilt, Attribution)
                 ELSE ChildrenBuilt

\* Without the parameter the quote tag does translate to the block-quote
\* alone.
QuoteWithoutAttribution ==
    /\ Translated
    /\ ended = 0
    /\ TheTag.name = N_quote
    /\ N_quote \notin DOMAIN TheTag.params
    /\ stack[1].inner.kind = "Tree"
    /\ result = Ok(<<MdParent("blockquote", ChildrenBuilt)>>)

\* ------------------------------------------------------------------------
\* Properties of the list tags
\* ------------------------------------------------------------------------

TrimStart(s) == SubSeq(s, Skip(s, 0, "space") + 1, Len(s))

RECURSIVE TrimEnd(_)
TrimEnd(s) ==
    IF s # <<>> /\ s[Len(s)] \in Spaces
    THEN TrimEnd(SubSeq(s, 1, Len(s) - 1))
    ELSE s

Marker == <<"[", "*", "]">>

\* The texts of the items of a plain-text list content: for every line that
\* starts with the marker, the rest of the line, trimmed.
RECURSIVE MarkerItems(_)
MarkerItems(ls) ==
    IF ls = <<>> THEN <<>>
    ELSE IF IsPrefix(Marker, TrimStart(Head(ls)))
         THEN <<TrimEnd(TrimStart(SubSeq(TrimStart(Head(ls)), 4,
                                         Len(TrimStart(Head(ls))))))>>
                  \o MarkerItems(Tail(ls))
         ELSE MarkerItems(Tail(ls))

ListItems == MarkerItems(StrSplit(ContentText, "\n"))

\* C25: list and ul translate to one list node with ordered = false and no
\* start, ol to one with ordered = true and start = 1, both with
\* spread = false; a plain-text content gives the list one item per
\* line-leading marker, in source order, holding the trimmed text after the
\* marker.
ListTranslation ==
    (/\ Translated
     /\ ended = 0
     /\ TheTag.name \in {N_list, N_ul, N_ol}
     /\ stack[1].inner.kind # "Tree")
        => /\ result.kind = "Ok"
           /\ Len(result.value) = 1
           /\ result.value[1].type = "list"
           /\ result.value[1].ordered = (TheTag.name = N_ol)
           /\ result.value[1].start =
                 IF TheTag.name = N_ol THEN Some(1) ELSE None
           /\ result.value[1].spread = FALSE
           /\ Len(result.value[1].children) = Len(ListItems)
           /\ \A j \in 1..Len(ListItems) :
                 ToMdText(<<result.value[1].children[j]>>)
                     \in {ListItems[j], escape_markdown(ListItems[j])}

\* A list tag without content does translate to the empty list node.
EmptyListTranslated ==
    /\ Translated
    /\ ended = 0
    /\ TheTag.name = N_ol
    /\ stack[1].inner.kind = "None"
    /\ result = Ok(<<MdList(TRUE, Some(1), FALSE)>>)

\* ------------------------------------------------------------------------
\* Properties of the escaping of text
\* ------------------------------------------------------------------------

\* The tags whose content is written inside an HTML element, and the tags
\* whose content is taken verbatim.
HtmlNames == {N_center, N_left, N_right, N_style, N_u, N_spoiler}

VerbatimNames == {N_code, N_pre, N_url, N_youtube, N_img}

\* The element of a tag of HtmlNames.
ElementOf(name) ==
    IF name = N_u THEN N_u ELSE IF name = N_spoiler THEN N_details ELSE N_span

IsSuffix(p, q) ==
    Len(p) <= Len(q) /\ SubSeq(q, Len(q) - Len(p) + 1, Len(q)) = p

\* The HTML value ends with the content of the element, every text run
\* escaped once, and its closing tag.
HoldsContent(value, element) ==
    IsSuffix(<<">">> \o ChildrenText \o <<"<", "/">> \o element \o <<">", "\n">>,
             value)

\* The texts the node of a verbatim tag carries.
VerbatimTexts(node) ==
    CASE node.type \in {"code", "inlineCode"} -> {node.value}
      [] node.type = "image" -> {node.url}
      [] node.type = "link" ->
            {node.url} \cup (IF node.title = None THEN {} ELSE {node.title.v})

\* The text leaves among the nodes and among their children.
LeavesOf(nodes) ==
    {nodes[j] : j \in {k \in 1..Len(nodes) : nodes[k].type = "text"}}
        \cup UNION { {nodes[j].children[c] : c \in 1..Len(nodes[j].children)} :
                        j \in {k \in 1..Len(nodes) :
                                  nodes[k].type \in {"blockquote", "emphasis"}} }

IsInfix(p, q) ==
    \E k \in 0..(Len(q) - Len(p)) : SubSeq(q, k + 1, k + Len(p)) = p

\* The label of the translated spoiler tag as a summary element, with the
\* text given for it.
SummaryOf(text) ==
    <<"<", "s", "u", "m", "m", "a", "r", "y", ">">> \o text
        \o <<"<", "/", "s", "u", "m", "m", "a", "r", "y", ">">>

HeadingDepth ==
    pc = "done" =>
        IF depth \in 1..6
        THEN result = Ok([new_heading EXCEPT !.depth = depth])
        ELSE result = Abort("assert")

\* The same for every depth but 6.
HeadingDepthButSix == depth # 6 => HeadingDepth

\* ------------------------------------------------------------------------
\* Properties of the end of a translation
\* ------------------------------------------------------------------------

\* C28: the translation of a node returns, with a populated builder or with
\* an error; in particular the translation of a b or s node returns after
\* building the children of the node.
TranslationReturns ==
    (Translated /\ ended = 0) =>
        /\ result.kind \in {"Ok", "Err"}
        /\ TheTag.name \in {N_b, N_s} =>
              /\ result.kind = "Ok"
              /\ Len(result.value) = 1
              /\ result.value[1].children = ChildrenBuilt

\* The translation of every node whose tag is neither b nor s, nor one that
\* runs into todo!() or into the unwrap of get_inner_text, does return.
OtherTranslationsReturn ==
    (/\ Translated
     /\ TheTag.name \notin {N_b, N_s, N_table, N_td, N_th, N_tr}
     /\ ~(TheTag.name \in {N_list, N_ul, N_ol} /\ stack[1].inner.kind = "Tree")
     /\ ~(TheTag.name \in VerbatimNames /\ stack[1].inner.kind = "Tree"))
        => result.kind \in {"Ok", "Err"}

\* ------------------------------------------------------------------------
\* Properties of get_inner_text
\* ------------------------------------------------------------------------

\* C29: when the content of a completed code, pre, url, youtube or img node
\* is a list, the list holds a node with a tag, and the translation returns
\* an UnexpectedTag error naming that tag; a list of text leaves alone never
\* reaches the translation of such a node.
InnerTextUnwrap ==
    (/\ pc \in {"build", "done"}
     /\ Len(stack) = 1
     /\ ended = 0
     /\ TheTag # None
     /\ TheTag.name \in VerbatimNames
     /\ stack[1].inner.kind = "Tree")
        => /\ \E j \in 1..Len(stack[1].inner.value) :
                 stack[1].inner.value[j].tag # None
           /\ pc = "done" =>
                 /\ result.kind = "Err"
                 /\ result.error.kind = "UnexpectedTag"

\* ------------------------------------------------------------------------
\* Properties of the end of the fragment stream
\* ------------------------------------------------------------------------

\* The number of matches of the tag pattern in s from an offset on, each
\* search starting where the match before ended.
RECURSIVE CountMatches(_, _)
CountMatches(s, from) ==
    IF FindMatch(s, from) = None THEN 0
    ELSE 1 + CountMatches(s, FindMatch(s, from).whole.end)

\* C30: the stream yields at most one fragment per tag match and one Text
\* per gap between matches, never two Text fragments in a row; once next()
\* has returned None every later call returns None and yields nothing; the
\* cursor never moves backwards.
TokenizerTerminates ==
    /\ [](/\ CountKind("StartTag") + CountKind("EndTag") <= CountMatches(input, 0)
          /\ CountKind("Text") <= CountMatches(input, 0) + 1
          /\ \A i \in 1..(Len(yielded) - 1) :
                ~(yielded[i].kind = "Text" /\ yielded[i + 1].kind = "Text")
          /\ ended > 0 => next_fragment(input, stream).item = None)
    /\ [][/\ stream'.pos >= stream.pos
          /\ ended > 0 => (yielded' = yielded /\ ended' = ended + 1)]_vars

\* next() returned None three times in a row after an input with two tags,
\* each with text before it.
TokenizerTerminatesWitness ==
    /\ ended = 3
    /\ Len(yielded) = 4
    /\ Kinds[1] = "Text"
    /\ IsTag(yielded[2])
    /\ Kinds[3] = "Text"
    /\ IsTag(yielded[4])
    /\ CountMatches(input, 0) = 2

====
